---- MODULE Spec2Model ----
(***************************************************************************)
(* botcoin: the trading bot (trading.Bot, trading.TradingProcess) and the  *)
(* streaming session (api.WebsocketClient).                                *)
(*                                                                         *)
(* Two specifications share one state:                                     *)
(*   Spec    the bot: Start, Stop and the order-update handler, with the   *)
(*           gateway's answers chosen by the environment;                  *)
(*   SpecWS  the session: the reader, heartbeat and liveness goroutines,   *)
(*           reconnect() and Close(), one step per critical section or     *)
(*           blocking call.                                                *)
(***************************************************************************)
EXTENDS Integers, Sequences, FiniteSets, TLC

\* ------------------------------------------------------------------ bounds

\* Order identifiers the gateway can hand out: 1..MaxOrderId.
MaxOrderId == 4

\* Transports that may be left open without c.conn pointing to them.
MaxLeaked == 1

\* Data frames the history numbers.
MaxFrames == 3

\* Order-update records per batch (len(orders) in handleOrderUpdate).
BatchLen == 2

\* ------------------------------------------------------- program constants

\* The empty order identifier "" of a buy level that was never placed.
EmptyId == 0

\* ------------------------------------------------------------ configuration

\* The configured symbol (config.TradingProcesses), with two buy levels.  Once
\* its process is removed from b.tradingProcesses it is an unknown symbol.
Symbols == {"X"}

\* Number of configured buy levels per symbol (len(tradingProcessConfig.BuyOrders)).
BuyOrderConfigs == [s \in Symbols |-> 2]

OrderIds == EmptyId .. MaxOrderId

Sides == {"buy", "sell"}

\* order.Status: the handler compares it with "filled" only; every other
\* status ("new" too) takes the path of the two listed here.
Statuses == {"filled", "partially_filled", "canceled"}

\* One record of an order-update batch (api.Order): the fields the handler
\* reads.  priceOk says whether strconv.ParseFloat(order.Price) succeeds.
Events ==
    [instId : Symbols, orderId : OrderIds,
     side : Sides, status : Statuses, priceOk : BOOLEAN]

NoEvent ==
    [instId |-> "-", orderId |-> EmptyId, side |-> "-", status |-> "-", priceOk |-> FALSE]

\* What the gateway answers during one filled buy event: the first step of the
\* handler that fails, or "ok" when none does.
Outcomes == {"GetPosition", "CancelOrder", "ParseFloat", "PlaceLimitOrder", "ok"}

\* The gateway is only asked during a filled buy event.
OutcomesFor(e) == IF e.status = "filled" /\ e.side = "buy" THEN Outcomes ELSE {"ok"}

Threads == {"reader", "keepAlive", "monitor"}

\* The goroutines of the session, and the one that calls NewWebsocketClient.
Procs == Threads \cup {"main"}

\* Handlers a caller may register; 0 stands for no handler.
Handlers == {1, 2}

VARIABLES
    \* trading.Bot
    tradingProcesses,    \* keys of b.tradingProcesses (the active set)
    BuyOrders,           \* [symbol -> sequence of the buy levels' OrderId]
    SellOrder,           \* [symbol -> set of SellOrder records; {} is nil]
    isRunning,           \* b.isRunning
    startPc,             \* where the goroutine calling Start/Stop is
    startTodo,           \* symbols Start's range loop has not yet visited
    \* the exchange, as the gateway sees it
    nextId,              \* last order identifier handed out
    exchOpen,            \* sell orders open on the exchange
    \* api.WebsocketClient
    handlers,            \* c.handlers["default"]: 0 none, else the handler
    conn,                \* the transport c.conn points to: is it open, the
                         \* frames written to it, the subscribe frames
                         \* reconnect() wrote to it
    leaked,              \* transports dialled, replaced in c.conn, never closed
    isConnected,         \* c.isConnected
    reconnectInProgress, \* c.reconnectInProgress
    done,                \* c.done is closed
    stale,               \* time.Since(c.lastReceived).Seconds() > 50
    pc,                  \* [goroutine -> location]
    rconn,               \* the transport the reader's ReadMessage blocks on: is
                         \* it still c.conn and, if not, was it open and
                         \* subscribed when c.conn was replaced
    msg,                 \* the frame the reader holds between read and dispatch
    closePc,             \* where the goroutine calling Close() is
    crashed,             \* "none", or how the process died: "panic" (close of a
                         \* closed channel), "fatal" (log.Fatalf), "throw"
                         \* (concurrent map read and map write)
    registering,         \* the handler a RegisterHandler call in progress is
                         \* writing into c.handlers, 0 when there is none
    hist,                \* history: data frames read and payloads delivered
    \* the locks, for the specifications that take them step by step
    mu,                  \* [symbol -> who holds process.mu: "none", "start"
                         \* (placeBuyOrders) or "handler"]
    inPlace,             \* the symbol Start is inside placeBuyOrders for, or "-"
    loop,                \* where Start's range loop is: between two processes,
                         \* inside the map iterator, before process.mu.Lock()
                         \* or at buy level i with the identifier the gateway
                         \* returned and the level does not carry yet
    mapRace,             \* a delete on b.tradingProcesses ran while Start's
                         \* iterator was reading the map
    hpc,                 \* the record handleSingleOrderUpdate holds between
                         \* process.mu.Lock() and its return, or NoEvent
    cmu,                 \* who holds the session's c.mu: "none" or a goroutine
    lpc,                 \* [goroutine -> the lock and access operations of the
                         \* loop iteration it is in, the next one, and whether
                         \* that access has begun]
    \* the order-pair variant of the bot (trading.TradingPair)
    activeOrders,        \* [symbol -> the tracked pairs: buy and sell order id]
    orderCount,          \* [symbol -> pair.orderCount]
    pmu,                 \* [symbol -> who holds pair.mu: "none" or "handler"]
    hAt,                 \* the symbol whose handler is at its placeBuyOrder
                         \* call, or "-"
    \* the sell order of a filled buy, in numbers
    quote,               \* the position the exchange reported, the sell
                         \* price computed from it and the order request sent
    level,               \* one buy level: its configuration, the CoinPrice
                         \* NewBot gave it, the price of the last request
    \* the step just taken
    last

muVars == <<mu, inPlace, hpc, loop, mapRace>>

lkVars == <<cmu, lpc>>

pairVars == <<activeOrders, orderCount, pmu, hAt>>

priceVars == <<quote, level>>

fineVars == <<muVars, lkVars, pairVars, priceVars>>

botVars == <<tradingProcesses, BuyOrders, SellOrder, isRunning, startPc, startTodo,
             nextId, exchOpen, fineVars>>

wsVars == <<conn, leaked, isConnected, reconnectInProgress, done, stale, pc, rconn,
            msg, closePc, registering, hist>>

wsVarsButReg == <<conn, leaked, isConnected, reconnectInProgress, done, stale, pc,
                  rconn, msg, closePc>>

vars == <<tradingProcesses, BuyOrders, SellOrder, isRunning, startPc, startTodo,
          nextId, exchOpen, handlers, conn, leaked, isConnected,
          reconnectInProgress, done, stale, pc, rconn, msg, closePc, crashed,
          registering, hist, fineVars, last>>

\* ------------------------------------------------------------------- helpers

Step(op, e, calls) == [op |-> op, e |-> e, calls |-> calls]

Alive == crashed = "none"

\* ---------------------------------------------------------------- the state

\* The handler Bot.Start registers (b.handleOrderUpdate).
BotHandler == 1

\* No position was asked for yet.
NoQuote ==
    [at |-> "none", avg |-> 0, pct |-> 0, total |-> 0, bought |-> 0,
     sellPrice |-> 0, Price |-> 0, Size |-> 0]

\* NewBot has not run.
NoLevel ==
    [at |-> "none", current |-> 0, pct |-> 0, cfg |-> 0, CoinPrice |-> 0,
     Price |-> 0, requests |-> 0]

\* Start is not inside its range loop.
NoLoop == [at |-> "-", s |-> "-", i |-> 0, id |-> EmptyId]

\* No lock is held, nobody is inside a critical section.
InitFine ==
    /\ mu = [s \in Symbols |-> "none"]
    /\ inPlace = "-"
    /\ hpc = NoEvent
    /\ loop = NoLoop
    /\ mapRace = FALSE
    /\ activeOrders = [s \in Symbols |-> {}]
    /\ orderCount = [s \in Symbols |-> 0]
    /\ pmu = [s \in Symbols |-> "none"]
    /\ hAt = "-"
    /\ quote = NoQuote
    /\ level = NoLevel
    /\ cmu = "none"
    /\ lpc = [t \in Threads |-> [path |-> <<>>, i |-> 1, busy |-> FALSE]]

InitBot ==
    /\ tradingProcesses = Symbols
    /\ BuyOrders = [s \in Symbols |-> [i \in 1 .. BuyOrderConfigs[s] |-> EmptyId]]
    /\ SellOrder = [s \in Symbols |-> {}]
    /\ isRunning = FALSE
    /\ startPc = "idle"
    /\ startTodo = {}
    /\ nextId = 0
    /\ exchOpen = {}
    /\ InitFine

\* A transport just dialled.  login is what became of the login on it: "none"
\* (no login frame written), "sent" (written, no reply read), "acked" (the
\* login event was read), "rejected" (the server's error reply was read).
NewConn == [open |-> TRUE, sent |-> {}, resubscribes |-> 0, login |-> "none"]

\* The history is not recorded.  recv counts the data frames read, dlv lists
\* the events handed to a handler (batch, position in the batch, handler), reg
\* is the handler of the last RegisterHandler call that returned.
NoHist == [on |-> FALSE, recv |-> 0, dlv |-> <<>>, reg |-> 0]

\* The history of a session that has read no frame yet.
EmptyHist == [NoHist EXCEPT !.on = TRUE]

\* The reader is not inside ReadMessage.
NotReading == [cur |-> TRUE, open |-> FALSE, sub |-> FALSE]

\* The session NewWebsocketClient returns: one transport, login and subscribe
\* written to it, the three goroutines at the top of their loops.
InitSession ==
    /\ conn = [NewConn EXCEPT !.sent = {"login", "subscribe"}, !.login = "sent"]
    /\ leaked = 0
    /\ isConnected = TRUE
    /\ reconnectInProgress = FALSE
    /\ done = FALSE
    /\ stale = FALSE
    /\ pc = [t \in Procs |-> IF t = "main" THEN "returned" ELSE "top"]
    /\ rconn = NotReading
    /\ msg = "none"
    /\ closePc = "idle"
    /\ crashed = "none"
    /\ registering = 0

Init ==
    /\ InitBot
    /\ InitSession
    /\ hist = NoHist
    /\ handlers = 0
    /\ last = Step("init", NoEvent, <<>>)

\* ------------------------------------------------- WebsocketClient.Close

\* close(c.done): closing a closed channel panics.
CloseDone ==
    IF done
    THEN crashed' = "panic" /\ UNCHANGED done
    ELSE done' = TRUE /\ UNCHANGED crashed

\* closeConnection: under c.mu, mark disconnected and close c.conn (c.conn is
\* never nil in a session that NewWebsocketClient returned).
closeConnection ==
    /\ isConnected' = FALSE
    /\ conn' = [conn EXCEPT !.open = FALSE]

\* Close() as one step of a caller that nothing interleaves with.
Close ==
    /\ CloseDone
    /\ IF done THEN UNCHANGED <<isConnected, conn>> ELSE closeConnection
    /\ UNCHANGED <<leaked, reconnectInProgress, stale, pc, rconn, msg, closePc,
                   registering, hist>>

\* ------------------------------------------------------------ trading.Bot

\* process.alreadyInitialized: declared, never assigned.
alreadyInitialized(s) == FALSE

OrderWithIdExistsAlways(buys, sell, orderId) == TRUE

\* TradingProcess.OrderWithIdExists: the sell order is compared inside the
\* loop over the buy levels.
OrderWithIdExists(buys, sell, orderId) ==
    \E i \in 1 .. Len(buys) :
        \/ buys[i] = orderId
        \/ \E so \in sell : so.OrderId = orderId

\* The buy levels after placeBuyOrders placed the first k of them (and failed
\* on level k+1, if there is one): every level visited gets the identifier
\* returned for it, also a level that already carries one.
PlacedBuyOrders(buys, first, k) ==
    [i \in 1 .. Len(buys) |-> IF i <= k THEN first + i ELSE buys[i]]

\* The PlaceLimitOrder calls of placeBuyOrders: k accepted, then one rejected
\* unless all levels were placed.
PlaceBuyCalls(buys, k) ==
    [i \in 1 .. (IF k < Len(buys) THEN k + 1 ELSE k) |-> "PlaceLimitOrder"]

AddSellOrder(prev, orderId) == prev \cup {[OrderId |-> orderId]}

\* process.SellOrder = sellOrder
ReplaceSellOrder(prev, orderId) == {[OrderId |-> orderId]}

KeepProcess(procs, s) == procs

\* delete(b.tradingProcesses, order.InstId)
RemoveProcess(procs, s) == procs \ {s}

\* Bot.Start: if b.isRunning.
AlreadyRunningNever == FALSE

AlreadyRunning == isRunning

\* Bot.Start up to the range loop.
Start ==
    /\ Alive
    /\ startPc = "idle"
    /\ IF AlreadyRunning
       THEN /\ last' = Step("StartError", NoEvent, <<>>)
            /\ UNCHANGED <<isRunning, handlers, startPc, startTodo>>
       ELSE /\ isRunning' = TRUE
            /\ handlers' = BotHandler
            /\ startPc' = "placing"
            /\ startTodo' = tradingProcesses
            /\ last' = Step("Start", NoEvent, <<>>)
    /\ UNCHANGED <<tradingProcesses, BuyOrders, SellOrder, nextId, exchOpen, wsVars,
                   crashed, fineVars>>

\* The body of placeBuyOrders(symbol, process), the gateway accepting the
\* first k placements.
placeBuyOrders(s, k) ==
    /\ ~alreadyInitialized(s)
    /\ k \in 0 .. Len(BuyOrders[s])
    /\ nextId + k <= MaxOrderId
    /\ BuyOrders' = [BuyOrders EXCEPT ![s] = PlacedBuyOrders(BuyOrders[s], nextId, k)]
    /\ nextId' = nextId + k
    /\ last' = Step("placeBuyOrders", [NoEvent EXCEPT !.instId = s],
                    PlaceBuyCalls(BuyOrders[s], k))

\* One iteration of Start's loop: placeBuyOrders(symbol, process) under
\* process.mu.
StartPlace(s, k) ==
    /\ Alive
    /\ startPc = "placing"
    /\ s \in startTodo \cap tradingProcesses
    /\ placeBuyOrders(s, k)
    /\ startTodo' = startTodo \ {s}
    /\ UNCHANGED <<tradingProcesses, SellOrder, isRunning, startPc, exchOpen,
                   handlers, wsVars, crashed, fineVars>>

\* Start's loop is over; Start returns nil.
StartReturn ==
    /\ Alive
    /\ startPc = "placing"
    /\ startTodo \cap tradingProcesses = {}
    /\ startPc' = "idle"
    /\ startTodo' = {}
    /\ last' = Step("StartReturn", NoEvent, <<>>)
    /\ UNCHANGED <<tradingProcesses, BuyOrders, SellOrder, isRunning, nextId,
                   exchOpen, handlers, wsVars, crashed, fineVars>>

\* Bot.Stop.
Stop ==
    /\ Alive
    /\ startPc = "idle"
    /\ IF ~isRunning
       THEN /\ last' = Step("StopNoop", NoEvent, <<>>)
            /\ UNCHANGED <<isRunning, wsVars, crashed>>
       ELSE /\ isRunning' = FALSE
            /\ Close
            /\ last' = Step("Stop", NoEvent, <<>>)
    /\ UNCHANGED <<tradingProcesses, BuyOrders, SellOrder, startPc, startTodo,
                   nextId, exchOpen, handlers, fineVars>>

\* The handler returns without touching the process.
Dropped(e, calls) ==
    /\ last' = Step("event", e, calls)
    /\ UNCHANGED <<tradingProcesses, BuyOrders, SellOrder, nextId, exchOpen>>

NoPreviousSellOrder(s) == {}

\* previousSellOrder := process.SellOrder
PreviousSellOrder(s) == SellOrder[s]

AbortOnParseOnly == {"ParseFloat"}

AbortOnButCancel == {"GetPosition", "ParseFloat", "PlaceLimitOrder"}

AbortOnButPosition == {"CancelOrder", "ParseFloat", "PlaceLimitOrder"}

\* The steps of the filled-buy branch whose error makes the handler return.
AbortOn == {"GetPosition", "CancelOrder", "ParseFloat", "PlaceLimitOrder"}

\* What a call adds to the list of calls: its name, and "error" if it failed.
Call(name, failed) == IF failed THEN <<name, "error">> ELSE <<name>>

\* handleSingleOrderUpdate, the branch of a filled buy order.  The exchange
\* accepts a cancellation only of an order that is open.
BuyFilled(e, o) ==
    LET s == e.instId
        prev == PreviousSellOrder(s)
        posFailed == o = "GetPosition"
        cancelFailed ==
            /\ prev # {}
            /\ (o = "CancelOrder" \/ \E so \in prev : so.OrderId \notin exchOpen)
        afterCancel ==
            IF cancelFailed THEN exchOpen ELSE exchOpen \ {so.OrderId : so \in prev}
        posCalls == Call("GetPosition", posFailed)
        cancelCalls == IF prev = {} THEN <<>> ELSE Call("CancelOrder", cancelFailed)
    IN  IF posFailed /\ "GetPosition" \in AbortOn
        THEN Dropped(e, posCalls)
        ELSE IF cancelFailed /\ "CancelOrder" \in AbortOn
        THEN Dropped(e, posCalls \o cancelCalls)
        ELSE IF o = "ParseFloat"
        THEN /\ exchOpen' = afterCancel
             /\ last' = Step("event", e, posCalls \o cancelCalls \o
                             Call("ParseFloat", TRUE))
             /\ UNCHANGED <<tradingProcesses, BuyOrders, SellOrder, nextId>>
        ELSE IF o = "PlaceLimitOrder"
        THEN /\ exchOpen' = afterCancel
             /\ last' = Step("event", e, posCalls \o cancelCalls \o
                             Call("PlaceLimitOrder", TRUE))
             /\ UNCHANGED <<tradingProcesses, BuyOrders, SellOrder, nextId>>
        ELSE /\ nextId < MaxOrderId
             /\ nextId' = nextId + 1
             /\ exchOpen' = afterCancel \cup {nextId + 1}
             /\ SellOrder' = [SellOrder EXCEPT ![s] = ReplaceSellOrder(prev, nextId + 1)]
             /\ last' = Step("event", e, posCalls \o cancelCalls \o
                             Call("PlaceLimitOrder", FALSE))
             /\ UNCHANGED <<tradingProcesses, BuyOrders>>

\* handleSingleOrderUpdate, the branch of a filled sell order.
SellFilled(e) ==
    /\ tradingProcesses' = RemoveProcess(tradingProcesses, e.instId)
    /\ last' = Step("event", e, <<>>)
    /\ UNCHANGED <<BuyOrders, SellOrder, nextId, exchOpen>>

IsFilledOrPartial(e) == e.status \in {"filled", "partially_filled"}

\* order.Status == "filled"
IsFilled(e) == e.status = "filled"

\* handleSingleOrderUpdate from process.mu.Lock() to its return.
HandleLocked(e, o) ==
    IF ~e.priceOk
    THEN Dropped(e, <<>>)
    ELSE IF ~OrderWithIdExists(BuyOrders[e.instId], SellOrder[e.instId], e.orderId)
    THEN Dropped(e, <<>>)
    ELSE IF IsFilled(e) /\ e.side = "buy"
    THEN BuyFilled(e, o)
    ELSE IF IsFilled(e) /\ e.side = "sell"
    THEN SellFilled(e)
    ELSE Dropped(e, <<>>)

\* Bot.handleSingleOrderUpdate for one record of a batch, called by the
\* session's reader through the registered handler.
handleSingleOrderUpdate(e, o) ==
    /\ Alive
    /\ handlers = BotHandler
    /\ IF e.instId \notin tradingProcesses
       THEN Dropped(e, <<>>)
       ELSE HandleLocked(e, o)
    /\ UNCHANGED <<isRunning, startPc, startTodo, handlers, wsVars, crashed, fineVars>>

NextBot ==
    \/ Start
    \/ \E s \in Symbols, k \in 0 .. 2 : StartPlace(s, k)
    \/ StartReturn
    \/ Stop
    \/ \E e \in Events : \E o \in OutcomesFor(e) : handleSingleOrderUpdate(e, o)

Spec == Init /\ [][NextBot]_vars

\* ------------------------------- trading.Bot, the sell order in numbers

\* The arithmetic of the filled-buy branch in fixed point.  The average entry
\* price is counted in tenths, the sell target in tenths of a percent, so that
\* 1 + SellTargetPercent/100 is (1000 + pct)/1000 and the sell price comes in
\* units of 0.0001.  Position sizes are counted in units of 0.000000001.
\* The float64 product differs from the exact one by far less than the
\* gateway's rounding step; where the exact value lies halfway between two
\* roundings, either may come out.

\* Units of 0.0001 in 0.1: FormatFloat(price, 'f', 1, 64) keeps one decimal.
PriceStep == 1000

\* Units of 0.000000001 in 0.00000001: FormatFloat(size, 'f', 8, 64) keeps
\* eight decimals.
SizeStep == 10

\* position.OpenPriceAvg values, in tenths: 39800.0, 39800.5, 5.0, 100.0,
\* 1234.5.
AvgPrices == {398000, 398005, 50, 1000, 12345}

\* process.SellTargetPercent values, in tenths of a percent: 0.8, 1.0, 2.5, 0.5.
SellTargetPercents == {8, 10, 25, 5}

\* position.Total values: 0.001, 0.0025, 0.001234567.
Totals == {1000000, 2500000, 1234567}

\* Sums of the local buy levels' OrderAmount: 0.001, 0.002.
LocalSums == {1000000, 2000000}

SellPriceFlat(avg, pct) == avg * 1000

\* sellPrice := avgPrice * (1 + process.SellTargetPercent/100)
SellPrice(avg, pct) == avg * (1000 + pct)

\* x in steps, to the nearest step; up decides a tie.
RoundTo(x, step, up) ==
    LET q == x \div step
        r == x % step
    IN  IF 2 * r > step THEN q + 1
        ELSE IF 2 * r < step THEN q
        ELSE IF up THEN q + 1 ELSE q

\* OrderRequest.Price, in tenths.
FormatPrice(price, up) == RoundTo(price, PriceStep, up)

\* OrderRequest.Size, in units of 0.00000001.
FormatSize(size, up) == RoundTo(size, SizeStep, up)

PriceFrame ==
    UNCHANGED <<tradingProcesses, BuyOrders, SellOrder, isRunning, startPc,
                startTodo, nextId, exchOpen, muVars, lkVars, pairVars, handlers,
                wsVars, crashed>>

\* GetPosition answers during a filled buy event of a process.
PositionReported(avg, pct, total, bought) ==
    /\ Alive
    /\ quote.at # "position"
    /\ quote' = [NoQuote EXCEPT !.at = "position", !.avg = avg, !.pct = pct,
                                !.total = total, !.bought = bought]
    /\ last' = Step("GetPosition", NoEvent, <<"GetPosition">>)
    /\ UNCHANGED level
    /\ PriceFrame

\* The handler computes the sell price and PlaceLimitOrder builds its request.
SellRequested(up) ==
    /\ Alive
    /\ quote.at = "position"
    /\ quote' = [quote EXCEPT
                    !.at = "placed",
                    !.sellPrice = SellPrice(quote.avg, quote.pct),
                    !.Price = FormatPrice(SellPrice(quote.avg, quote.pct), up),
                    !.Size = FormatSize(quote.total, up)]
    /\ last' = Step("PlaceLimitOrder", NoEvent, <<"PlaceLimitOrder">>)
    /\ UNCHANGED level
    /\ PriceFrame

NextPrice ==
    \/ \E avg \in AvgPrices, pct \in SellTargetPercents, total \in Totals,
          bought \in LocalSums : PositionReported(avg, pct, total, bought)
    \/ \E up \in BOOLEAN : SellRequested(up)

SpecPrice == Init /\ [][NextPrice]_vars

\* ---------------------------- trading.Bot, the price of a buy level

\* Prices in tenths, percentages in tenths of a percent, CoinPrice in units of
\* 0.0001, as for the sell order.

\* Requests one buy level is followed through (Start after Stop places again).
MaxRequests == 2

\* GetCurrentPrice answers, in tenths: 40000.0, 40000.5, 100.0, 1234.5, 5.0.
CurrentPrices == {400000, 400005, 1000, 12345, 50}

\* buyOrderConfig.CoinPriceBelowPercent, in tenths of a percent: unset, 0.5,
\* 1.0, 2.5.
BelowPercents == {0, 5, 10, 25}

\* buyOrderConfig.CoinPrice, in tenths: unset, 39000.0, 1000.0.
ConfigPrices == {0, 390000, 10000}

BuyPriceAbove(current, pct) == current * (1000 + pct)

\* coinPrice = currentPrice * (1 - buyOrderConfig.CoinPriceBelowPercent/100)
BuyPrice(current, pct) == current * (1000 - pct)

\* NewBot's choice of a level's CoinPrice: the configured price, or, with a
\* percentage configured, the price that far below the current price.
CoinPrice(cfg, current, pct) == IF pct > 0 THEN BuyPrice(current, pct) ELSE cfg * 1000

\* NewBot builds the level; with a percentage configured it asks for the
\* current price first and fails when the gateway does.
NewBotLevel(cfg, current, pct, ok) ==
    /\ Alive
    /\ level.at = "none"
    /\ IF pct > 0 /\ ~ok
       THEN level' = [NoLevel EXCEPT !.at = "failed", !.cfg = cfg, !.pct = pct]
       ELSE level' = [NoLevel EXCEPT
                        !.at = "built", !.cfg = cfg, !.pct = pct,
                        !.current = IF pct > 0 THEN current ELSE 0,
                        !.CoinPrice = CoinPrice(cfg, current, pct)]
    /\ last' = Step("NewBot", NoEvent, IF pct > 0 THEN <<"GetCurrentPrice">> ELSE <<>>)
    /\ UNCHANGED quote
    /\ PriceFrame

\* placeBuyOrders reads the level's CoinPrice and PlaceLimitOrder writes it
\* into its request.
LevelRequested(up) ==
    /\ Alive
    /\ level.at \in {"built", "placed"}
    /\ level.requests < MaxRequests
    /\ level' = [level EXCEPT !.at = "placed",
                              !.Price = FormatPrice(level.CoinPrice, up),
                              !.requests = @ + 1]
    /\ last' = Step("placeBuyOrders", NoEvent, <<"PlaceLimitOrder">>)
    /\ UNCHANGED quote
    /\ PriceFrame

NextLevel ==
    \/ \E cfg \in ConfigPrices, current \in CurrentPrices, pct \in BelowPercents,
          ok \in BOOLEAN : NewBotLevel(cfg, current, pct, ok)
    \/ \E up \in BOOLEAN : LevelRequested(up)

SpecLevel == Init /\ [][NextLevel]_vars

\* --------------------------------------- trading.Bot, one step per lock

\* The goroutine that calls Start and the session's reader, which calls the
\* handler, run side by side; each critical section of process.mu is entered
\* in one step and left in another.

MuFreeAlways(s) == TRUE

\* process.mu.Lock() returns only when nobody holds the lock.
MuFree(s) == mu[s] = "none"

\* Who holds process.mu after placeBuyOrders locked it.
PlaceHolderNobody == "none"

PlaceHolder == "start"

\* Start's range loop asks the map iterator for the next process.
IterBegin ==
    /\ Alive
    /\ startPc = "placing"
    /\ loop = NoLoop
    /\ loop' = [NoLoop EXCEPT !.at = "iter"]
    /\ last' = Step("range", NoEvent, <<>>)
    /\ UNCHANGED <<tradingProcesses, BuyOrders, SellOrder, isRunning, startPc,
                   startTodo, nextId, exchOpen, mu, inPlace, hpc, mapRace, handlers,
                   wsVars, crashed, lkVars, pairVars, priceVars>>

\* The iterator hands out a process that is still in the map and was not
\* visited.
IterNext(s) ==
    /\ Alive
    /\ loop.at = "iter"
    /\ s \in startTodo \cap tradingProcesses
    /\ ~alreadyInitialized(s)
    /\ loop' = [NoLoop EXCEPT !.at = "lock", !.s = s]
    /\ last' = Step("range", [NoEvent EXCEPT !.instId = s], <<>>)
    /\ UNCHANGED <<tradingProcesses, BuyOrders, SellOrder, isRunning, startPc,
                   startTodo, nextId, exchOpen, mu, inPlace, hpc, mapRace, handlers,
                   wsVars, crashed, lkVars, pairVars, priceVars>>

\* The iterator is exhausted: Start returns nil.
IterDone ==
    /\ Alive
    /\ loop.at = "iter"
    /\ startTodo \cap tradingProcesses = {}
    /\ loop' = NoLoop
    /\ startPc' = "idle"
    /\ startTodo' = {}
    /\ last' = Step("StartReturn", NoEvent, <<>>)
    /\ UNCHANGED <<tradingProcesses, BuyOrders, SellOrder, isRunning, nextId,
                   exchOpen, mu, inPlace, hpc, mapRace, handlers, wsVars, crashed,
                   lkVars, pairVars, priceVars>>

\* placeBuyOrders: process.mu.Lock().
PlaceLock(s) ==
    /\ Alive
    /\ startPc = "placing"
    /\ inPlace = "-"
    /\ loop.at = "lock"
    /\ loop.s = s
    /\ MuFree(s)
    /\ mu' = [mu EXCEPT ![s] = PlaceHolder]
    /\ inPlace' = s
    /\ loop' = [loop EXCEPT !.at = "in", !.i = 1]
    /\ last' = Step("Lock", [NoEvent EXCEPT !.instId = s], <<>>)
    /\ UNCHANGED <<tradingProcesses, BuyOrders, SellOrder, isRunning, startPc,
                   startTodo, nextId, exchOpen, hpc, mapRace, handlers, wsVars,
                   crashed, lkVars, pairVars, priceVars>>

\* placeBuyOrders, buy level loop.i: b.client.PlaceLimitOrder. An accepted
\* request returns the order identifier; a rejected one makes placeBuyOrders
\* return the error, the deferred Unlock runs and Start logs the error and
\* goes on with its loop.
PlaceCall(ok) ==
    /\ Alive
    /\ loop.at = "in"
    /\ loop.id = EmptyId
    /\ loop.i <= Len(BuyOrders[loop.s])
    /\ IF ok
       THEN /\ nextId < MaxOrderId
            /\ nextId' = nextId + 1
            /\ loop' = [loop EXCEPT !.id = nextId + 1]
            /\ last' = Step("PlaceLimitOrder", [NoEvent EXCEPT !.instId = loop.s], <<>>)
            /\ UNCHANGED <<mu, inPlace, startTodo>>
       ELSE /\ mu' = [mu EXCEPT ![loop.s] = "none"]
            /\ inPlace' = "-"
            /\ loop' = NoLoop
            /\ startTodo' = startTodo \ {loop.s}
            /\ last' = Step("placeBuyOrders", [NoEvent EXCEPT !.instId = loop.s],
                            PlaceBuyCalls(BuyOrders[loop.s], loop.i - 1))
            /\ UNCHANGED nextId
    /\ UNCHANGED <<tradingProcesses, BuyOrders, SellOrder, isRunning, startPc,
                   exchOpen, hpc, mapRace, handlers, wsVars, crashed, lkVars,
                   pairVars, priceVars>>

\* placeBuyOrders, buy level loop.i: process.BuyOrders[i].OrderId = orderId.
PlaceStore ==
    /\ Alive
    /\ loop.at = "in"
    /\ loop.id # EmptyId
    /\ BuyOrders' = [BuyOrders EXCEPT ![loop.s][loop.i] = loop.id]
    /\ loop' = [loop EXCEPT !.i = loop.i + 1, !.id = EmptyId]
    /\ last' = Step("store", [NoEvent EXCEPT !.instId = loop.s], <<>>)
    /\ UNCHANGED <<tradingProcesses, SellOrder, isRunning, startPc, startTodo, nextId,
                   exchOpen, mu, inPlace, hpc, mapRace, handlers, wsVars, crashed,
                   lkVars, pairVars, priceVars>>

\* placeBuyOrders: every level was placed, the deferred Unlock runs.
PlaceUnlock ==
    /\ Alive
    /\ loop.at = "in"
    /\ loop.id = EmptyId
    /\ loop.i > Len(BuyOrders[loop.s])
    /\ mu' = [mu EXCEPT ![loop.s] = "none"]
    /\ inPlace' = "-"
    /\ loop' = NoLoop
    /\ startTodo' = startTodo \ {loop.s}
    /\ last' = Step("placeBuyOrders", [NoEvent EXCEPT !.instId = loop.s],
                    PlaceBuyCalls(BuyOrders[loop.s], Len(BuyOrders[loop.s])))
    /\ UNCHANGED <<tradingProcesses, BuyOrders, SellOrder, isRunning, startPc, nextId,
                   exchOpen, hpc, mapRace, handlers, wsVars, crashed, lkVars,
                   pairVars, priceVars>>

\* handleSingleOrderUpdate: the lookup in b.tradingProcesses and
\* process.mu.Lock().
HandlerEnter(e) ==
    /\ Alive
    /\ handlers = BotHandler
    /\ hpc = NoEvent
    /\ IF e.instId \notin tradingProcesses
       THEN /\ Dropped(e, <<>>)
            /\ UNCHANGED <<mu, hpc>>
       ELSE /\ MuFree(e.instId)
            /\ mu' = [mu EXCEPT ![e.instId] = "handler"]
            /\ hpc' = e
            /\ last' = Step("Lock", e, <<>>)
            /\ UNCHANGED <<tradingProcesses, BuyOrders, SellOrder, nextId, exchOpen>>
    /\ UNCHANGED <<isRunning, startPc, startTodo, inPlace, loop, mapRace, handlers,
                   wsVars, crashed, lkVars, pairVars, priceVars>>

\* The event makes the handler run delete(b.tradingProcesses, order.InstId).
Removes(e) ==
    /\ e.priceOk
    /\ OrderWithIdExists(BuyOrders[e.instId], SellOrder[e.instId], e.orderId)
    /\ IsFilled(e)
    /\ e.side = "sell"

\* The delete runs while Start's iterator reads the map: nothing orders the
\* two accesses.
DeleteInIteration(e) == loop.at = "iter" /\ Removes(e)

\* handleSingleOrderUpdate: the rest of the handler and the deferred Unlock.
\* A delete that meets the iterator either goes unnoticed or makes the
\* runtime throw "concurrent map iteration and map write".
HandlerRun(o, thrown) ==
    /\ Alive
    /\ hpc # NoEvent
    /\ o \in OutcomesFor(hpc)
    /\ thrown => DeleteInIteration(hpc)
    /\ HandleLocked(hpc, o)
    /\ mu' = [mu EXCEPT ![hpc.instId] = "none"]
    /\ hpc' = NoEvent
    /\ mapRace' = (mapRace \/ DeleteInIteration(hpc))
    /\ crashed' = IF thrown THEN "throw" ELSE crashed
    /\ UNCHANGED <<isRunning, startPc, startTodo, inPlace, loop, handlers, wsVars,
                   lkVars, pairVars, priceVars>>

NextMu ==
    \/ Start
    \/ IterBegin
    \/ \E s \in Symbols : IterNext(s)
    \/ IterDone
    \/ \E s \in Symbols : PlaceLock(s)
    \/ \E ok \in BOOLEAN : PlaceCall(ok)
    \/ PlaceStore
    \/ PlaceUnlock
    \/ Stop
    \/ \E e \in Events : HandlerEnter(e)
    \/ \E o \in Outcomes, thrown \in BOOLEAN : HandlerRun(o, thrown)

SpecMu == Init /\ [][NextMu]_vars

\* ------------------------------------- trading.Bot, the order-pair variant

\* The variant of the bot that tracks pairs of a buy order and its sell order
\* per symbol (TradingPair), with the same Start and Stop.

\* pair.config.MaxOrders
MaxOrders == [s \in Symbols |-> 1]

PairOutcomes == {"GetCurrentPrice", "PlaceLimitOrder", "ok"}

\* Who calls placeBuyOrder: Start's loop, or the handler after a sell fill.
PairCallers == {"start", "handler"}

PairFullNever(s) == FALSE

\* pair.orderCount >= pair.config.MaxOrders
PairFull(s) == orderCount[s] >= MaxOrders[s]

\* pair.mu.Lock() returns only when nobody holds the lock, the caller included.
PairMuFree(s) == pmu[s] = "none"

\* The pairs whose sell order the event names.
MatchingPairs(e) == {op \in activeOrders[e.instId] : op.SellOrderId = e.orderId}

PairFrame ==
    UNCHANGED <<tradingProcesses, BuyOrders, SellOrder, isRunning, startPc, exchOpen,
                handlers, muVars, lkVars, priceVars, wsVars, crashed>>

\* placeBuyOrder(symbol, pair), from pair.mu.Lock() to the deferred Unlock.
\* When it returns to the handler, the handler returns too and its own
\* deferred Unlock runs.
placeBuyOrder(caller, s, o) ==
    /\ Alive
    /\ IF caller = "start"
       THEN /\ startPc = "placing"
            /\ s \in startTodo
            /\ startTodo' = startTodo \ {s}
            /\ UNCHANGED hAt
       ELSE /\ hAt = s
            /\ hAt' = "-"
            /\ UNCHANGED startTodo
    /\ PairMuFree(s)
    /\ UNCHANGED pmu
    /\ IF PairFull(s)
       THEN /\ last' = Step("placeBuyOrder", [NoEvent EXCEPT !.instId = s], <<>>)
            /\ UNCHANGED <<activeOrders, orderCount, nextId>>
       ELSE IF o = "GetCurrentPrice"
       THEN /\ last' = Step("placeBuyOrder", [NoEvent EXCEPT !.instId = s],
                             <<"GetCurrentPrice">>)
            /\ UNCHANGED <<activeOrders, orderCount, nextId>>
       ELSE IF o = "PlaceLimitOrder"
       THEN /\ last' = Step("placeBuyOrder", [NoEvent EXCEPT !.instId = s],
                             <<"GetCurrentPrice", "PlaceLimitOrder">>)
            /\ UNCHANGED <<activeOrders, orderCount, nextId>>
       ELSE /\ nextId < MaxOrderId
            /\ nextId' = nextId + 1
            /\ activeOrders' = [activeOrders EXCEPT ![s] =
                    @ \cup {[BuyOrderId |-> nextId + 1, SellOrderId |-> EmptyId]}]
            /\ orderCount' = [orderCount EXCEPT ![s] = @ + 1]
            /\ last' = Step("placeBuyOrder", [NoEvent EXCEPT !.instId = s],
                             <<"GetCurrentPrice", "PlaceLimitOrder">>)
    /\ PairFrame

\* The handler returns with the pairs as they are.
PairDropped(e, calls) ==
    /\ last' = Step("event", e, calls)
    /\ UNCHANGED <<activeOrders, orderCount, nextId, pmu, hAt>>

\* handleSingleOrderUpdate of the variant, up to its return or, after a sell
\* fill that completed a pair, up to its call of placeBuyOrder (pair.mu is
\* then still held: the Unlock is deferred).
PairHandle(e, ok) ==
    LET s == e.instId
        tracked == {op \in activeOrders[s] : op.BuyOrderId = e.orderId}
    IN  /\ Alive
        /\ handlers = BotHandler
        /\ hAt = "-"
        /\ PairMuFree(s)
        /\ IF ~e.priceOk
           THEN PairDropped(e, <<>>)
           ELSE IF tracked # {} /\ e.status = "filled" /\ e.side = "buy"
           THEN IF ok
                THEN /\ nextId < MaxOrderId
                     /\ nextId' = nextId + 1
                     /\ activeOrders' = [activeOrders EXCEPT ![s] =
                             (@ \ tracked) \cup
                             {[op EXCEPT !.SellOrderId = nextId + 1] : op \in tracked}]
                     /\ last' = Step("event", e, <<"PlaceLimitOrder">>)
                     /\ UNCHANGED <<orderCount, pmu, hAt>>
                ELSE PairDropped(e, <<"PlaceLimitOrder">>)
           ELSE IF e.status = "filled" /\ e.side = "sell" /\ MatchingPairs(e) # {}
           THEN \E op \in MatchingPairs(e) :
                    /\ activeOrders' = [activeOrders EXCEPT ![s] = @ \ {op}]
                    /\ orderCount' = [orderCount EXCEPT ![s] = @ - 1]
                    /\ IF orderCount[s] - 1 < MaxOrders[s]
                       THEN /\ pmu' = [pmu EXCEPT ![s] = "handler"]
                            /\ hAt' = s
                       ELSE UNCHANGED <<pmu, hAt>>
                    /\ last' = Step("event", e, <<>>)
                    /\ UNCHANGED nextId
           ELSE PairDropped(e, <<>>)
        /\ UNCHANGED startTodo
        /\ PairFrame

NextPair ==
    \/ Start
    \/ \E c \in PairCallers, s \in Symbols, o \in PairOutcomes : placeBuyOrder(c, s, o)
    \/ StartReturn
    \/ Stop
    \/ \E e \in Events, ok \in BOOLEAN : PairHandle(e, ok)

SpecPair == Init /\ [][NextPair]_vars

\* The goroutines are scheduled: Start's loop goes on, and so does the handler.
FairnessPair ==
    /\ \A c \in PairCallers :
           WF_vars(\E s \in Symbols, o \in PairOutcomes : placeBuyOrder(c, s, o))
    /\ WF_vars(StartReturn)

FairSpecPair == SpecPair /\ FairnessPair

\* ------------------------------------------------- api.WebsocketClient

\* Frames the server sends, as readLoop classifies them.  "pong" is the
\* heartbeat reply, "garbage" does not parse, "autherr" is error 30004 "not
\* logged in", "ratelimit" is error 30006 "request too many", "error" any
\* other error event, "loginerr" the error event that rejects a login,
\* "login" and "subscribe" the acknowledgments, "data" an order-update batch.
FrameKinds ==
    {"pong", "garbage", "autherr", "ratelimit", "error", "loginerr", "login",
     "subscribe", "data"}

DispatchedAll == FrameKinds

\* Frames readLoop handles after the classification: the others are logged.
Dispatched == {"autherr", "ratelimit", "data"}

\* The locations of reconnect() after its in-progress guard was passed and
\* the flag set: disconnect, then the retry loop.
ReconnectBody == {"rc_disc", "rc_dial", "rc_auth", "rc_clear", "rc_sub", "rc_sleep"}

\* The session steps the properties below tell apart; the others are recorded
\* as "-".
Observed ==
    {"init", "handler", "nohandler", "Close", "Dialled", "Resubscribed", "Opened",
     "IdleTimeout", "throw", "relogin", "resubscribe"}

WsStep(op) == Step(IF op \in Observed THEN op ELSE "-", NoEvent, <<>>)

\* The step that read a frame; its kind is recorded with the history.
FrameStep(kind) == IF hist.on THEN Step(kind, NoEvent, <<>>) ELSE WsStep(kind)

\* The step that looked up c.handlers["default"] and, when there is one,
\* called handler h with the payload.
HandlerStep(h) ==
    IF h = 0 THEN WsStep("nohandler") ELSE Step("handler", NoEvent, <<h>>)

RegisteredFirst(old, h) == IF old = 0 THEN h ELSE old

\* c.handlers["default"] = handler.
Registered(old, h) == h

\* The outcome of a map read that runs while another goroutine writes the map.
Throw == -1

\* What readLoop's read of c.handlers["default"] can give.  The map is read
\* and written without a lock: a read that runs during a RegisterHandler call
\* sees the map before or after the write, or the runtime stops the process
\* ("concurrent map read and map write").
Lookup ==
    IF registering = 0
    THEN {handlers}
    ELSE {handlers, Registered(handlers, registering), Throw}

Goto(t, loc) == pc' = [pc EXCEPT ![t] = loc]

AfterFullReconnect(t) == Goto(t, "rc_check")

\* readLoop's continue after it re-authenticated, re-subscribed or called the
\* handler: back to the top of the loop, reconnect() is not called.
AfterInlineRecovery(t) == Goto(t, "top")

\* conn.WriteMessage / conn.WriteJSON of a frame on c.conn.  "ping" stays in
\* the set until its reply is read.
Written(c, frame) ==
    [c EXCEPT !.sent = @ \cup {frame},
              !.login = IF frame = "login" THEN "sent" ELSE @]

\* The reader read the server's reply to a frame written on c.conn.
Replied(c, kind) ==
    IF kind = "pong" THEN [c EXCEPT !.sent = @ \ {"ping"}]
    ELSE IF kind = "login" THEN [c EXCEPT !.login = "acked"]
    ELSE IF kind = "loginerr" THEN [c EXCEPT !.login = "rejected"]
    ELSE c

\* The transport the reader blocks on is open / has been subscribed on.
ReaderConnOpen == IF rconn.cur THEN conn.open ELSE rconn.open

ReaderConnSubscribed == IF rconn.cur THEN "subscribe" \in conn.sent ELSE rconn.sub

\* The server sends a reply only to a frame it received: a pong to a ping, a
\* login event or a login error to a login frame, order updates to a
\* subscriber.  On a transport c.conn no longer points to, only the
\* subscription is known.
ServerMaySend(kind) ==
    /\ kind = "data" => ReaderConnSubscribed
    /\ rconn.cur =>
          /\ kind = "pong" => "ping" \in conn.sent
          /\ kind \in {"login", "loginerr"} => conn.login = "sent"

EventsOfReversed(k) == [i \in 1 .. BatchLen |-> <<k, BatchLen + 1 - i>>]

\* handleOrderUpdate's range over the records of batch k: the events handed
\* to handleSingleOrderUpdate, in that order.
EventsOf(k) == [i \in 1 .. BatchLen |-> <<k, i>>]

\* The history after a frame was read: data frames are numbered as they come.
Received(h, kind) ==
    IF h.on /\ kind = "data" THEN [h EXCEPT !.recv = @ + 1] ELSE h

\* The history after handler f was called with the data frame held.
Delivered(h, f) ==
    IF h.on
    THEN [h EXCEPT !.dlv = @ \o [i \in 1 .. BatchLen |->
                                    [k |-> EventsOf(h.recv)[i][1],
                                     i |-> EventsOf(h.recv)[i][2],
                                     h |-> f]]]
    ELSE h

\* The session's steps leave the bot alone.
SessionFrame == UNCHANGED <<botVars, handlers, registering, hist>>

\* InitSession with the bot's handler registered.
InitWS ==
    /\ InitBot
    /\ InitSession
    /\ hist = NoHist
    /\ handlers = BotHandler
    /\ last = WsStep("init")

\* readLoop, top of the loop: the done channel, then the connected flag, then
\* the call of c.conn.ReadMessage().
ReaderTop ==
    /\ Alive
    /\ pc["reader"] = "top"
    /\ IF done
       THEN Goto("reader", "exit") /\ UNCHANGED rconn
       ELSE isConnected /\ Goto("reader", "read") /\ rconn' = [NotReading EXCEPT !.cur = TRUE]
    /\ last' = WsStep("ReaderTop")
    /\ UNCHANGED <<conn, leaked, isConnected, reconnectInProgress, done, stale, msg,
                   closePc, crashed>>
    /\ SessionFrame

\* ReadMessage returns an error: the transport was closed, or the network
\* failed.  readLoop calls reconnect().
ReaderReadError ==
    /\ Alive
    /\ pc["reader"] = "read"
    /\ Goto("reader", "rc_check")
    /\ rconn' = NotReading
    /\ last' = WsStep("ReadError")
    /\ UNCHANGED <<conn, leaked, isConnected, reconnectInProgress, done, stale, msg,
                   closePc, crashed>>
    /\ SessionFrame

\* ReadMessage returns a frame.  The server sends order updates only on a
\* transport it received a subscribe frame on.
ReaderReadFrame(kind) ==
    /\ Alive
    /\ pc["reader"] = "read"
    /\ ReaderConnOpen
    /\ ServerMaySend(kind)
    /\ hist.on /\ kind = "data" => hist.recv < MaxFrames
    /\ stale' = FALSE
    /\ conn' = IF rconn.cur THEN Replied(conn, kind) ELSE conn
    /\ rconn' = NotReading
    /\ hist' = Received(hist, kind)
    /\ IF kind \in Dispatched
       THEN msg' = kind /\ Goto("reader", "dispatch")
       ELSE msg' = "none" /\ Goto("reader", "top")
    /\ last' = FrameStep(kind)
    /\ UNCHANGED <<leaked, isConnected, reconnectInProgress, done, closePc, crashed>>
    /\ UNCHANGED <<botVars, handlers, registering>>

\* readLoop after the classification: re-authenticate (Send under c.mu),
\* re-subscribe (WriteJSON on c.conn), or call the handler.  A failed write is
\* log.Fatalf.
ReaderDispatch(ok) ==
    /\ Alive
    /\ pc["reader"] = "dispatch"
    /\ IF msg = "autherr"
       THEN /\ IF ok /\ isConnected /\ conn.open
               THEN /\ conn' = Written(conn, "login")
                    /\ last' = WsStep("relogin")
                    /\ UNCHANGED crashed
               ELSE crashed' = "fatal" /\ last' = WsStep("Fatalf") /\ UNCHANGED conn
            /\ UNCHANGED hist
       ELSE IF msg = "ratelimit"
       THEN /\ IF ok /\ conn.open
               THEN /\ conn' = Written(conn, "subscribe")
                    /\ last' = WsStep("resubscribe")
                    /\ UNCHANGED crashed
               ELSE crashed' = "fatal" /\ last' = WsStep("Fatalf") /\ UNCHANGED conn
            /\ UNCHANGED hist
       ELSE /\ ok
            /\ \E h \in Lookup :
                   IF h = Throw
                   THEN /\ crashed' = "throw"
                        /\ last' = WsStep("throw")
                        /\ UNCHANGED hist
                   ELSE /\ last' = HandlerStep(h)
                        /\ hist' = IF h # 0 THEN Delivered(hist, h) ELSE hist
                        /\ UNCHANGED crashed
            /\ UNCHANGED conn
    /\ msg' = "none"
    /\ AfterInlineRecovery("reader")
    /\ UNCHANGED <<leaked, isConnected, reconnectInProgress, done, stale, rconn,
                   closePc>>
    /\ UNCHANGED <<botVars, handlers, registering>>

\* keepAlive, the ticker case: skip when not connected, else Send("ping");
\* a failed send calls reconnect().
KeepAliveTick(ok) ==
    /\ Alive
    /\ pc["keepAlive"] = "top"
    /\ isConnected
    /\ IF ok
       THEN /\ conn.open
            /\ conn' = Written(conn, "ping")
            /\ UNCHANGED pc
            /\ last' = WsStep("ping")
       ELSE /\ Goto("keepAlive", "rc_check")
            /\ last' = WsStep("PingFailed")
            /\ UNCHANGED conn
    /\ UNCHANGED <<leaked, isConnected, reconnectInProgress, done, stale, rconn,
                   msg, closePc, crashed>>
    /\ SessionFrame

\* keepAlive and monitorReceived, the done case of their select.
TickerExit(t) ==
    /\ Alive
    /\ t \in {"keepAlive", "monitor"}
    /\ pc[t] = "top"
    /\ done
    /\ Goto(t, "exit")
    /\ last' = WsStep("exit")
    /\ UNCHANGED <<conn, leaked, isConnected, reconnectInProgress, done, stale, rconn,
                   msg, closePc, crashed>>
    /\ SessionFrame

IdleNever == FALSE

\* time.Since(c.lastReceived).Seconds() > 50
IdleTooLong == stale

\* monitorReceived, the ticker case: more than 50 s since the last frame.
MonitorTick ==
    /\ Alive
    /\ pc["monitor"] = "top"
    /\ isConnected
    /\ IdleTooLong
    /\ Goto("monitor", "rc_check")
    /\ last' = WsStep("IdleTimeout")
    /\ UNCHANGED <<conn, leaked, isConnected, reconnectInProgress, done, stale, rconn,
                   msg, closePc, crashed>>
    /\ SessionFrame

\* 50 s go by without a frame.
TimePasses ==
    /\ Alive
    /\ ~stale
    /\ stale' = TRUE
    /\ last' = WsStep("TimePasses")
    /\ UNCHANGED <<conn, leaked, isConnected, reconnectInProgress, done, pc, rconn,
                   msg, closePc, crashed>>
    /\ SessionFrame

\* reconnect(): the unlocked read of c.reconnectInProgress.
RcCheck(t) ==
    /\ Alive
    /\ pc[t] = "rc_check"
    /\ IF reconnectInProgress THEN Goto(t, "top") ELSE Goto(t, "rc_set")
    /\ last' = WsStep("RcCheck")
    /\ UNCHANGED <<conn, leaked, isConnected, reconnectInProgress, done, stale, rconn,
                   msg, closePc, crashed>>
    /\ SessionFrame

\* reconnect(): c.reconnectInProgress = true under c.mu.
RcSet(t) ==
    /\ Alive
    /\ pc[t] = "rc_set"
    /\ reconnectInProgress' = TRUE
    /\ Goto(t, "rc_disc")
    /\ last' = WsStep("RcSet")
    /\ UNCHANGED <<conn, leaked, isConnected, done, stale, rconn, msg, closePc,
                   crashed>>
    /\ SessionFrame

\* reconnect(): c.disconnect().
RcDisconnect(t) ==
    /\ Alive
    /\ pc[t] = "rc_disc"
    /\ closeConnection
    /\ Goto(t, "rc_dial")
    /\ last' = WsStep("RcDisconnect")
    /\ UNCHANGED <<leaked, reconnectInProgress, done, stale, rconn, msg, closePc,
                   crashed>>
    /\ SessionFrame

\* The transports left open and unreferenced once c.conn is overwritten.
LeakedAfterDial == IF conn.open THEN leaked + 1 ELSE leaked

\* connect(): Dial, and on success c.conn = conn, c.isConnected = true under
\* c.mu.  The transport c.conn pointed to before is not closed here; a reader
\* blocked on it stays blocked on it.
RcDial(t, ok) ==
    /\ Alive
    /\ pc[t] = "rc_dial"
    /\ IF ok
       THEN /\ LeakedAfterDial <= MaxLeaked
            /\ leaked' = LeakedAfterDial
            /\ conn' = NewConn
            /\ isConnected' = TRUE
            /\ rconn' = IF pc["reader"] = "read" /\ rconn.cur
                        THEN [cur |-> FALSE, open |-> conn.open,
                              sub |-> "subscribe" \in conn.sent]
                        ELSE rconn
            /\ Goto(t, "rc_auth")
            /\ last' = WsStep("Dialled")
       ELSE /\ Goto(t, "rc_sleep")
            /\ last' = WsStep("DialFailed")
            /\ UNCHANGED <<conn, leaked, isConnected, rconn>>
    /\ UNCHANGED <<reconnectInProgress, done, stale, msg, closePc, crashed>>
    /\ SessionFrame

\* connect(): authenticate(), a Send of the login frame under c.mu.  On an
\* error connect() returns it and reconnect() sleeps and retries.
RcAuth(t, ok) ==
    /\ Alive
    /\ pc[t] = "rc_auth"
    /\ IF ok
       THEN /\ isConnected /\ conn.open
            /\ conn' = Written(conn, "login")
            /\ Goto(t, "rc_clear")
            /\ last' = WsStep("LoginSent")
       ELSE /\ Goto(t, "rc_sleep")
            /\ last' = WsStep("LoginFailed")
            /\ UNCHANGED conn
    /\ UNCHANGED <<leaked, isConnected, reconnectInProgress, done, stale, rconn, msg,
                   closePc, crashed>>
    /\ SessionFrame

\* reconnect(): reconnectInProgress = false, lastReceived = now under c.mu.
RcClear(t) ==
    /\ Alive
    /\ pc[t] = "rc_clear"
    /\ reconnectInProgress' = FALSE
    /\ stale' = FALSE
    /\ Goto(t, "rc_sub")
    /\ last' = WsStep("RcClear")
    /\ UNCHANGED <<conn, leaked, isConnected, done, rconn, msg, closePc, crashed>>
    /\ SessionFrame

\* reconnect(): c.subscribe(), a WriteJSON on c.conn without the lock; on
\* success reconnect() returns, on an error it sleeps and retries.
RcSubscribe(t, ok) ==
    /\ Alive
    /\ pc[t] = "rc_sub"
    /\ IF ok
       THEN /\ conn.open
            /\ conn' = [Written(conn, "subscribe") EXCEPT !.resubscribes = @ + 1]
            /\ Goto(t, "top")
            /\ last' = WsStep("Resubscribed")
       ELSE /\ Goto(t, "rc_sleep")
            /\ last' = WsStep("SubscribeFailed")
            /\ UNCHANGED conn
    /\ UNCHANGED <<leaked, isConnected, reconnectInProgress, done, stale, rconn, msg,
                   closePc, crashed>>
    /\ SessionFrame

\* reconnect(): time.Sleep(5 * time.Second); continue.
RcSleep(t) ==
    /\ Alive
    /\ pc[t] = "rc_sleep"
    /\ Goto(t, "rc_dial")
    /\ last' = WsStep("RcSleep")
    /\ UNCHANGED <<conn, leaked, isConnected, reconnectInProgress, done, stale, rconn,
                   msg, closePc, crashed>>
    /\ SessionFrame

\* Close(): close(c.done) under c.mu.
CloseStart ==
    /\ Alive
    /\ pc["main"] = "returned"
    /\ closePc = "idle"
    /\ CloseDone
    /\ closePc' = "closing"
    /\ last' = WsStep("Close")
    /\ UNCHANGED <<conn, leaked, isConnected, reconnectInProgress, stale, pc, rconn,
                   msg>>
    /\ SessionFrame

\* Close(): return c.closeConnection().
CloseFinish ==
    /\ Alive
    /\ closePc = "closing"
    /\ closeConnection
    /\ closePc' = "idle"
    /\ last' = WsStep("Closed")
    /\ UNCHANGED <<leaked, reconnectInProgress, done, stale, pc, rconn, msg, crashed>>
    /\ SessionFrame

\* The steps of reconnect() run by goroutine t.
Reconnect(t) ==
    \/ RcCheck(t) \/ RcSet(t) \/ RcDisconnect(t) \/ RcClear(t) \/ RcSleep(t)
    \/ \E ok \in BOOLEAN : RcDial(t, ok) \/ RcAuth(t, ok) \/ RcSubscribe(t, ok)

NextWS ==
    \/ ReaderTop
    \/ ReaderReadError
    \/ \E kind \in FrameKinds : ReaderReadFrame(kind)
    \/ \E ok \in BOOLEAN : ReaderDispatch(ok)
    \/ \E ok \in BOOLEAN : KeepAliveTick(ok)
    \/ \E t \in Threads : TickerExit(t)
    \/ MonitorTick
    \/ TimePasses
    \/ \E t \in Threads : RcCheck(t)
    \/ \E t \in Threads : RcSet(t)
    \/ \E t \in Threads : RcDisconnect(t)
    \/ \E t \in Threads, ok \in BOOLEAN : RcDial(t, ok)
    \/ \E t \in Threads, ok \in BOOLEAN : RcAuth(t, ok)
    \/ \E t \in Threads : RcClear(t)
    \/ \E t \in Threads, ok \in BOOLEAN : RcSubscribe(t, ok)
    \/ \E t \in Threads : RcSleep(t)
    \/ CloseStart
    \/ CloseFinish

SpecWS == InitWS /\ [][NextWS]_vars

\* ------------------------------------------ RegisterHandler and the reader

\* RegisterHandler(h): the write of c.handlers["default"] begins.  The map is
\* written without a lock.
RegisterStart(h) ==
    /\ Alive
    /\ registering = 0
    /\ registering' = h
    /\ last' = WsStep("RegisterHandler")
    /\ UNCHANGED <<botVars, handlers, wsVarsButReg, hist, crashed>>

\* RegisterHandler: the write is done and the call returns.
RegisterFinish ==
    /\ Alive
    /\ registering # 0
    /\ handlers' = Registered(handlers, registering)
    /\ registering' = 0
    /\ hist' = IF hist.on THEN [hist EXCEPT !.reg = registering] ELSE hist
    /\ last' = WsStep("Registered")
    /\ UNCHANGED <<botVars, wsVarsButReg, crashed>>

\* A session that was just opened, no handler registered yet, with the
\* history of frames and deliveries recorded.
InitRd ==
    /\ InitBot
    /\ InitSession
    /\ hist = EmptyHist
    /\ handlers = 0
    /\ last = WsStep("init")

\* The reader goroutine, with its reconnections, and the callers of
\* RegisterHandler.
NextRd ==
    \/ \E h \in Handlers : RegisterStart(h)
    \/ RegisterFinish
    \/ ReaderTop
    \/ ReaderReadError
    \/ \E kind \in FrameKinds : ReaderReadFrame(kind)
    \/ \E ok \in BOOLEAN : ReaderDispatch(ok)
    \/ RcCheck("reader")
    \/ RcSet("reader")
    \/ RcDisconnect("reader")
    \/ \E ok \in BOOLEAN : RcDial("reader", ok)
    \/ \E ok \in BOOLEAN : RcAuth("reader", ok)
    \/ RcClear("reader")
    \/ \E ok \in BOOLEAN : RcSubscribe("reader", ok)
    \/ RcSleep("reader")

SpecRd == InitRd /\ [][NextRd]_vars

\* ------------------------------------------------- a network without faults

\* ReadMessage on a transport that was closed returns an error.
ReaderReadClosed == ~ReaderConnOpen /\ ReaderReadError

\* The session when the network reports no failure of its own and Close() is
\* not called: every dial and every write succeeds, and a read fails only on
\* a transport the session itself closed.  The server may still go silent.
NextQuiet ==
    \/ ReaderTop
    \/ ReaderReadClosed
    \/ \E kind \in FrameKinds : ReaderReadFrame(kind)
    \/ ReaderDispatch(TRUE)
    \/ KeepAliveTick(TRUE)
    \/ MonitorTick
    \/ TimePasses
    \/ \E t \in Threads : RcCheck(t)
    \/ \E t \in Threads : RcSet(t)
    \/ \E t \in Threads : RcDisconnect(t)
    \/ \E t \in Threads : RcDial(t, TRUE)
    \/ \E t \in Threads : RcAuth(t, TRUE)
    \/ \E t \in Threads : RcClear(t)
    \/ \E t \in Threads : RcSubscribe(t, TRUE)

SpecQuiet == InitWS /\ [][NextQuiet]_vars

\* Time goes by, the timers of keepAlive and monitorReceived fire again and
\* again, and a goroutine that can take a step of its own takes it; whether
\* the server sends a frame is up to the server.
FairnessQuiet ==
    /\ WF_vars(TimePasses)
    /\ WF_vars(ReaderTop) /\ WF_vars(ReaderReadClosed) /\ WF_vars(ReaderDispatch(TRUE))
    /\ WF_vars(KeepAliveTick(TRUE))
    /\ WF_vars(MonitorTick)
    /\ \A t \in Threads : WF_vars(Reconnect(t))

FairSpecQuiet == SpecQuiet /\ FairnessQuiet

\* --------------------------------------------------- NewWebsocketClient

\* No transport: c.conn is nil.
NoConn == [NewConn EXCEPT !.open = FALSE]

\* The state NewWebsocketClient starts from: the client value is built, no
\* transport is dialled, no goroutine is started.
InitOpen ==
    /\ InitBot
    /\ conn = NoConn
    /\ leaked = 0
    /\ isConnected = FALSE
    /\ reconnectInProgress = FALSE
    /\ done = FALSE
    /\ stale = FALSE
    /\ pc = [t \in Procs |-> IF t = "main" THEN "dial" ELSE "unborn"]
    /\ rconn = NotReading
    /\ msg = "none"
    /\ closePc = "idle"
    /\ crashed = "none"
    /\ registering = 0
    /\ hist = NoHist
    /\ handlers = BotHandler
    /\ last = WsStep("init")

\* NewWebsocketClient: c.connect(), the Dial.  On an error the constructor
\* returns it.
OpenDial(ok) ==
    /\ pc["main"] = "dial"
    /\ IF ok
       THEN /\ conn' = NewConn
            /\ isConnected' = TRUE
            /\ Goto("main", "auth")
       ELSE /\ Goto("main", "failed")
            /\ UNCHANGED <<conn, isConnected>>
    /\ last' = WsStep("OpenDial")
    /\ UNCHANGED <<leaked, reconnectInProgress, done, stale, rconn, msg, closePc,
                   crashed>>
    /\ SessionFrame

\* NewWebsocketClient: c.connect(), authenticate(): the login frame is
\* written; only a failed write is an error.
OpenAuth(ok) ==
    /\ pc["main"] = "auth"
    /\ IF ok
       THEN /\ conn' = Written(conn, "login")
            /\ Goto("main", "spawn")
       ELSE /\ Goto("main", "failed")
            /\ UNCHANGED conn
    /\ last' = WsStep("OpenAuth")
    /\ UNCHANGED <<leaked, isConnected, reconnectInProgress, done, stale, rconn, msg,
                   closePc, crashed>>
    /\ SessionFrame

\* NewWebsocketClient: go c.readLoop(); go c.keepAlive(); go c.monitorReceived().
OpenSpawn ==
    /\ pc["main"] = "spawn"
    /\ pc' = [t \in Procs |-> IF t = "main" THEN "subscribe" ELSE "top"]
    /\ last' = WsStep("OpenSpawn")
    /\ UNCHANGED <<conn, leaked, isConnected, reconnectInProgress, done, stale, rconn,
                   msg, closePc, crashed>>
    /\ SessionFrame

\* NewWebsocketClient: c.subscribe(), then return the session; on a failed
\* write return the error (the goroutines keep running).
OpenSubscribe(ok) ==
    /\ Alive
    /\ pc["main"] = "subscribe"
    /\ IF ok
       THEN /\ conn.open
            /\ conn' = Written(conn, "subscribe")
            /\ Goto("main", "returned")
            /\ last' = WsStep("Opened")
       ELSE /\ Goto("main", "failed")
            /\ last' = WsStep("OpenFailed")
            /\ UNCHANGED conn
    /\ UNCHANGED <<leaked, isConnected, reconnectInProgress, done, stale, rconn, msg,
                   closePc, crashed>>
    /\ SessionFrame

\* The constructor, whose dial and writes may fail, and the goroutines it
\* starts, on a network that reports no failure afterwards.
NextOpen ==
    \/ \E ok \in BOOLEAN : OpenDial(ok)
    \/ \E ok \in BOOLEAN : OpenAuth(ok)
    \/ OpenSpawn
    \/ \E ok \in BOOLEAN : OpenSubscribe(ok)
    \/ NextQuiet

SpecOpen == InitOpen /\ [][NextOpen]_vars

\* The steps of goroutine t.
Thread(t) ==
    \/ t = "reader" /\ (\/ ReaderTop
                        \/ ReaderReadError /\ ~ReaderConnOpen
                        \/ \E ok \in BOOLEAN : ReaderDispatch(ok))
    \/ t = "keepAlive" /\ \E ok \in BOOLEAN : KeepAliveTick(ok)
    \/ t = "monitor" /\ MonitorTick
    \/ TickerExit(t)
    \/ Reconnect(t)

\* The Go scheduler runs every goroutine that can run, a select whose done
\* case is ready eventually takes it, and a Close() that was started returns.
\* Nothing is assumed of the network: a dial or a write may fail every time,
\* and ReadMessage on an open transport may block for ever; on a closed
\* transport it returns an error.
Fairness ==
    /\ \A t \in Threads : WF_vars(Thread(t)) /\ WF_vars(TickerExit(t))
    /\ WF_vars(CloseFinish)

FairSpecWS == SpecWS /\ Fairness

\* ------------------------------------ api.WebsocketClient, one step per access

\* The reader, heartbeat and liveness goroutines as the sequences of lock
\* operations and accesses to c.conn and c.isConnected their code performs.
\* An access takes two steps, its beginning and its end, so that accesses of
\* different goroutines can overlap; which branch a goroutine takes in an
\* iteration is the environment's choice.

Lock == [op |-> "lock", obj |-> "mu"]

Unlock == [op |-> "unlock", obj |-> "mu"]

Rd(obj) == [op |-> "read", obj |-> obj]

Wr(obj) == [op |-> "write", obj |-> obj]

\* c.conn.WriteMessage / c.conn.WriteJSON: a frame is written to the transport.
Frame == [op |-> "frame", obj |-> "conn"]

\* Send: lock, test c.isConnected, write the frame, unlock.
SendOps == <<Lock, Rd("isConnected"), Frame, Unlock>>

\* subscribe: the frame is written with no lock taken.
subscribeOps == <<Frame>>

\* authenticate: builds the login message and calls Send.
authenticateOps == SendOps

\* closeConnection: lock, test c.conn, clear c.isConnected, c.conn.Close().
closeConnectionOps ==
    <<Lock, Rd("conn"), Wr("isConnected"), Rd("conn"), Unlock>>

\* connect: dial, then under the lock store c.conn and set c.isConnected,
\* then authenticate.
connectOps == <<Lock, Wr("conn"), Wr("isConnected"), Unlock>> \o authenticateOps

\* reconnect with its first dial succeeding: set the in-progress flag under
\* the lock, disconnect, connect, clear the flag under the lock, subscribe.
reconnectOps ==
    <<Lock, Unlock>> \o closeConnectionOps \o connectOps \o <<Lock, Unlock>>
        \o subscribeOps

\* One firing of the heartbeat timer: not connected; ping sent; ping failed.
keepAliveOps ==
    {<<Rd("isConnected")>>,
     <<Rd("isConnected")>> \o SendOps,
     <<Rd("isConnected"), Lock, Rd("isConnected"), Unlock>> \o reconnectOps}

\* One firing of the liveness timer: not connected or not idle; idle.
monitorReceivedOps ==
    {<<Rd("isConnected")>>,
     <<Rd("isConnected")>> \o reconnectOps}

\* One iteration of readLoop: not connected; a frame that needs no reply;
\* a read error; error 30004; error 30006.
readLoopOps ==
    {<<Rd("isConnected")>>,
     <<Rd("isConnected"), Rd("conn")>>,
     <<Rd("isConnected"), Rd("conn")>> \o reconnectOps,
     <<Rd("isConnected"), Rd("conn")>> \o authenticateOps,
     <<Rd("isConnected"), Rd("conn")>> \o subscribeOps}

OpsOf(t) ==
    CASE t = "reader" -> readLoopOps
      [] t = "keepAlive" -> keepAliveOps
      [] t = "monitor" -> monitorReceivedOps

\* The goroutine has operations of its iteration left, and the next one.
LkRunning(t) == lpc[t].i <= Len(lpc[t].path)

LkOp(t) == lpc[t].path[lpc[t].i]

LkAdvance(t) == lpc' = [lpc EXCEPT ![t].i = @ + 1, ![t].busy = FALSE]

\* These steps are about the lock only.
LkFrame ==
    UNCHANGED <<tradingProcesses, BuyOrders, SellOrder, isRunning, startPc,
                startTodo, nextId, exchOpen, muVars, pairVars, priceVars, handlers, wsVars,
                crashed>>

\* The goroutine starts an iteration of its loop.
LkIterate(t, path) ==
    /\ ~LkRunning(t)
    /\ path \in OpsOf(t)
    /\ lpc' = [lpc EXCEPT ![t] = [path |-> path, i |-> 1, busy |-> FALSE]]
    /\ last' = Step("iterate", NoEvent, <<t>>)
    /\ UNCHANGED cmu
    /\ LkFrame

\* c.mu.Lock(): returns when nobody holds the lock.
LkLock(t) ==
    /\ LkRunning(t)
    /\ LkOp(t) = Lock
    /\ cmu = "none"
    /\ cmu' = t
    /\ LkAdvance(t)
    /\ last' = Step("lock", NoEvent, <<t>>)
    /\ LkFrame

\* c.mu.Unlock().
LkUnlock(t) ==
    /\ LkRunning(t)
    /\ LkOp(t) = Unlock
    /\ cmu' = "none"
    /\ LkAdvance(t)
    /\ last' = Step("unlock", NoEvent, <<t>>)
    /\ LkFrame

\* An access to c.conn or c.isConnected begins.
LkBegin(t) ==
    /\ LkRunning(t)
    /\ LkOp(t).op \in {"read", "write", "frame"}
    /\ ~lpc[t].busy
    /\ lpc' = [lpc EXCEPT ![t].busy = TRUE]
    /\ last' = Step(LkOp(t).op, NoEvent, <<t, LkOp(t).obj>>)
    /\ UNCHANGED cmu
    /\ LkFrame

\* The access ends.
LkEnd(t) ==
    /\ LkRunning(t)
    /\ lpc[t].busy
    /\ LkAdvance(t)
    /\ last' = Step("end", NoEvent, <<t>>)
    /\ UNCHANGED cmu
    /\ LkFrame

NextLk ==
    \/ \E t \in Threads : \E path \in OpsOf(t) : LkIterate(t, path)
    \/ \E t \in Threads : LkLock(t)
    \/ \E t \in Threads : LkUnlock(t)
    \/ \E t \in Threads : LkBegin(t)
    \/ \E t \in Threads : LkEnd(t)

SpecLk == InitWS /\ [][NextLk]_vars

\* ------------------------------------------------------- properties: the bot

BotState == <<tradingProcesses, BuyOrders, SellOrder, nextId, exchOpen>>

\* The order identifier matches a buy level of the symbol's process or its
\* current sell order.
Known(s, orderId) ==
    \/ \E i \in DOMAIN BuyOrders[s] : BuyOrders[s][i] = orderId
    \/ \E so \in SellOrder[s] : so.OrderId = orderId

\* C1: a trading process holds at most one SellOrder record at any point in
\* time, whatever buy-fill and sell-fill events arrive and whatever the
\* gateway answers.
C1_AtMostOneSellOrder ==
    \A s \in Symbols : Cardinality(SellOrder[s]) <= 1

\* A later buy fill has just cancelled the recorded sell order and recorded
\* the newly placed one.
C1_Witness ==
    /\ last.op = "event"
    /\ last.calls = <<"GetPosition", "CancelOrder", "PlaceLimitOrder">>
    /\ SellOrder[last.e.instId] = {[OrderId |-> nextId]}
    /\ nextId \in exchOpen

\* C2: an order-update event whose order identifier matches neither a buy
\* level of the symbol's process nor its current sell order changes nothing
\* of that process (buy levels, sell order, membership in the active set) and
\* makes no gateway call, whatever its side, status and price.
C2_UnknownOrderNoMutation ==
    [][(last'.op = "event" /\ ~Known(last'.e.instId, last'.e.orderId))
          => (UNCHANGED BotState /\ last'.calls = <<>>)]_vars

\* A filled, well-formed sell event with an unmatched identifier was handled
\* for an active process that has a sell order recorded.
C2_Witness ==
    /\ last.op = "event"
    /\ last.e.instId \in tradingProcesses
    /\ last.e.status = "filled" /\ last.e.side = "sell" /\ last.e.priceOk
    /\ SellOrder[last.e.instId] # {}
    /\ ~Known(last.e.instId, last.e.orderId)

\* C3: a buy level's order identifier, once non-empty, is never reassigned.
C3_OrderIdNeverReassigned ==
    [][\A s \in Symbols : \A i \in DOMAIN BuyOrders[s] :
          BuyOrders[s][i] # EmptyId => BuyOrders'[s][i] = BuyOrders[s][i]]_vars

\* The event is a fill of the current sell order of an active process.
IsSellFill(e) ==
    /\ e.instId \in tradingProcesses
    /\ e.side = "sell" /\ e.status = "filled" /\ e.priceOk
    /\ \E so \in SellOrder[e.instId] : so.OrderId = e.orderId

\* C4: a sell-fill event for a symbol removes the symbol's process from the
\* active set, for good, and every later event of that symbol is discarded
\* without a state change or a gateway call.
C4_SellFillRemovesProcess ==
    [][/\ tradingProcesses' \subseteq tradingProcesses
       /\ last'.op = "event" =>
            /\ IsSellFill(last'.e) => last'.e.instId \notin tradingProcesses'
            /\ last'.e.instId \notin tradingProcesses =>
                   (UNCHANGED BotState /\ last'.calls = <<>>)]_vars

\* After the process was removed, a filled buy event naming one of its former
\* buy orders was handled.
C4_Witness ==
    /\ last.op = "event"
    /\ last.e.instId \notin tradingProcesses
    /\ last.e.status = "filled" /\ last.e.side = "buy" /\ last.e.priceOk
    /\ last.e.orderId # EmptyId
    /\ \E i \in DOMAIN BuyOrders[last.e.instId] :
           BuyOrders[last.e.instId][i] = last.e.orderId
    /\ SellOrder[last.e.instId] # {}

\* --------------------------------------------------- properties: the session

\* C5: two reconnection attempts never overlap: at most one goroutine is
\* between the start of reconnect()'s disconnect step and its return.
C5_NoOverlappingReconnect ==
    Cardinality({t \in Threads : pc[t] \in ReconnectBody}) <= 1

\* C6: when the reconnection started by the idle detector returns (the session
\* not closed), exactly one transport is open, the one c.conn points to, and
\* exactly one re-subscribe was written to it.
C6_OneTransportOneResubscribe ==
    [][(pc["monitor"] = "rc_sub" /\ pc'["monitor"] = "top" /\ ~done')
          => (conn'.open /\ leaked' = 0 /\ conn'.resubscribes = 1)]_vars

\* C7: a call of Close() completes normally, also the second one.
C7_CloseIdempotent ==
    last.op \in {"Close", "Stop"} => crashed = "none"

\* C8: once Close() has returned, a reader blocked in ReadMessage does not
\* call reconnect() when the read fails, and no transport is dialled.
C8_NoReconnectAfterClose ==
    [][(done /\ closePc = "idle")
          => /\ pc["reader"] = "read" => pc'["reader"] # "rc_check"
             /\ last'.op # "Dialled"]_vars

\* C9: after Close() the reader, heartbeat and liveness goroutines each
\* eventually terminate.
C9_ThreadsTerminate ==
    done ~> (crashed # "none" \/ \A t \in Threads : pc[t] = "exit")

\* C10: while the reconnection that follows a heartbeat failure is under way
\* (from its disconnect step until login and subscribe were written to the
\* new transport and reconnect() returned) the handler is not invoked.
C10_NoHandlerDuringReconnect ==
    last.op = "handler" => pc["keepAlive"] \notin ReconnectBody

\* C11: when a session is opened, the subscribe frame is written only after
\* the login frame was written and the server's login acknowledgment was read.
C11_SubscribeAfterLoginAck ==
    [][(pc["main"] = "subscribe" /\ pc'["main"] = "returned")
          => ("login" \in conn.sent /\ conn.login = "acked")]_vars

\* C12: NewWebsocketClient does not return a session when the server rejected
\* the login.
C12_LoginRejectedFailsOpen ==
    (last.op = "Opened" /\ pc["main"] = "returned") => conn.login # "rejected"

\* C13: while the session is connected, once more than 50 s went by without an
\* inbound frame the liveness monitor calls reconnect() on its own, whether or
\* not a read or a write has failed.
C13_IdleTimeoutReconnects ==
    (Alive /\ ~done /\ isConnected /\ stale /\ pc["monitor"] = "top")
        ~> (\/ pc["monitor"] = "rc_check"
            \/ ~stale \/ ~isConnected \/ done \/ ~Alive)

\* The monitor has just called reconnect() on the transport the session was
\* opened with: no read failed, no ping failed, nobody else is reconnecting.
C13_Witness ==
    /\ last.op = "IdleTimeout"
    /\ pc["monitor"] = "rc_check"
    /\ pc["reader"] = "read" /\ ReaderConnOpen
    /\ pc["keepAlive"] = "top"
    /\ conn.open /\ conn.resubscribes = 0 /\ leaked = 0
    /\ ~reconnectInProgress /\ ~done /\ Alive

\* A goroutine has called reconnect() and has not returned from it.
InReconnect(t) == pc[t] \in {"rc_check", "rc_set"} \cup ReconnectBody

\* C14: when a ping was sent, either its reply arrives or the session starts a
\* reconnection, also when other frames keep arriving.
C14_MissingPongReconnects ==
    ("ping" \in conn.sent)
        ~> ("ping" \notin conn.sent \/ \E t \in Threads : InReconnect(t))

\* C15: in a session that is not closed, reconnect() does not return from its
\* retry loop before the session is connected on a transport on which a login
\* frame and a subscribe frame have been sent.
C15_ReconnectReturnsLoggedIn ==
    [][\A t \in Threads :
          (pc[t] = "rc_sub" /\ pc'[t] = "top" /\ ~done')
              => /\ isConnected' /\ conn'.open
                 /\ {"login", "subscribe"} \subseteq conn'.sent]_vars

\* C16: no failure of a transport read or write terminates the process; each
\* is recovered by reconnection.
C16_NoFailureTerminates ==
    crashed # "fatal"

\* Frames the session consumes itself: the heartbeat reply, the error events
\* and the acknowledgments.
InternalKinds ==
    {"pong", "autherr", "ratelimit", "error", "loginerr", "login", "subscribe"}

\* A frame held for the handler leaves the reader through exactly one handler
\* call (none only if no handler is registered, or if the map read ran into a
\* RegisterHandler call and stopped the process), and the handler is called
\* for nothing else.
ForwardedOnce ==
    /\ (msg = "data" /\ msg' # "data")
          => /\ last'.op \in {"handler", "nohandler", "throw"}
             /\ msg' = "none"
             /\ last'.op = "nohandler" => handlers = 0
             /\ last'.op = "throw" => registering # 0
    /\ last'.op = "handler" => msg = "data"
    /\ \A a, b \in DOMAIN hist'.dlv :
          (hist'.dlv[a].k = hist'.dlv[b].k /\ hist'.dlv[a].i = hist'.dlv[b].i) => a = b

\* C17 as stated: the reader forwards a frame's payload to the handler, exactly
\* once, if and only if the frame is not a heartbeat reply, an error event or
\* an acknowledgment.
C17_ForwardIffNotInternal ==
    [][/\ last'.op \in FrameKinds => (msg' = "data" <=> last'.op \notin InternalKinds)
       /\ ForwardedOnce]_vars

\* C17, amended: the reader forwards a frame's payload to the registered
\* handler, exactly once, if and only if the frame parses as JSON and is not a
\* heartbeat reply, an error event or an acknowledgment; a frame that does
\* not parse is logged and dropped.
C17_ForwardIffWellFormedNotInternal ==
    [][/\ last'.op \in FrameKinds =>
            (msg' = "data" <=> last'.op \notin InternalKinds \cup {"garbage"})
       /\ ForwardedOnce]_vars

\* A data frame was forwarded to the handler, after the login acknowledgment
\* was read and not forwarded.
C17_Witness ==
    /\ last.op = "handler"
    /\ hist.recv = 1
    /\ Len(hist.dlv) = BatchLen
    /\ conn.login = "acked"
    /\ conn.resubscribes = 0

\* The frame readLoop writes in answer to an error frame it holds.
AnswerTo(m) == IF m = "autherr" THEN "login" ELSE "subscribe"

\* C18: an authentication-expired error frame makes the reader write the login
\* frame, a rate-limit error frame the subscribe frame, on the current
\* transport: the transport is not closed, the connected flag does not change
\* and no reconnection is started.
C18_InlineRecoveryNoReconnect ==
    [][(pc["reader"] = "dispatch" /\ msg \in {"autherr", "ratelimit"}
           /\ pc'["reader"] # "dispatch")
          => /\ conn'.open = conn.open
             /\ isConnected' = isConnected
             /\ reconnectInProgress' = reconnectInProgress
             /\ leaked' = leaked
             /\ ~InReconnect("reader")'
             /\ crashed' = "none" =>
                    /\ last'.op = (IF msg = "autherr" THEN "relogin" ELSE "resubscribe")
                    /\ AnswerTo(msg) \in conn'.sent
                    /\ conn.open /\ conn'.resubscribes = conn.resubscribes]_vars

\* The reader has re-sent the login frame on a transport that stayed open and
\* connected, and is back at the top of its loop.
C18_Witness ==
    /\ last.op = "relogin"
    /\ pc["reader"] = "top"
    /\ conn.open /\ isConnected /\ conn.login = "sent"
    /\ ~reconnectInProgress
    /\ \A t \in Threads : ~InReconnect(t)

\* C19: each forwarded payload is delivered to the handler of the most recent
\* RegisterHandler call (the last one that returned, or one that is writing
\* the slot at that moment), never to a handler registered before it.
C19_MostRecentHandlerOnly ==
    [][last'.op = "handler" =>
          /\ Len(last'.calls) = 1
          /\ last'.calls[1] \in ({hist.reg, registering} \ {0})]_vars

\* A payload was delivered to handler 2, registered after handler 1, which had
\* received an earlier payload.
C19_Witness ==
    /\ last.op = "handler" /\ last.calls = <<2>>
    /\ hist.reg = 2 /\ registering = 0
    /\ \E a, b \in DOMAIN hist.dlv :
           a < b /\ hist.dlv[a].h = 1 /\ hist.dlv[b].h = 2

\* C20: order-update batches reach the handler in the order in which they were
\* read from the transport, and the events of one batch are dispatched in
\* their order within the batch.
C20_DeliveredInArrivalOrder ==
    \A a, b \in DOMAIN hist.dlv :
        a < b => \/ hist.dlv[a].k < hist.dlv[b].k
                 \/ hist.dlv[a].k = hist.dlv[b].k /\ hist.dlv[a].i < hist.dlv[b].i

\* Two batches were delivered in a session that went through a reconnection.
C20_Witness ==
    /\ last.op = "handler"
    /\ hist.recv >= 2
    /\ Len(hist.dlv) >= 2 * BatchLen
    /\ conn.resubscribes >= 1

\* C21: for one symbol, handling an order-update event and placeBuyOrders
\* exclude each other: whoever is inside a critical section of the process
\* holds process.mu, so the reader is never processing an event of a process
\* while Start is inside placeBuyOrders for it (and the one reader goroutine
\* holds at most one event at a time).
C21_EventAndPlacementExclusive ==
    /\ inPlace # "-" => mu[inPlace] = "start"
    /\ hpc # NoEvent => mu[hpc.instId] = "handler"
    /\ ~(inPlace # "-" /\ hpc # NoEvent /\ hpc.instId = inPlace)

\* C21 witness: the reader is inside the handler for an event of a process
\* whose placeBuyOrders call Start has still to make: the call is waiting.
C21_Witness ==
    /\ hpc # NoEvent
    /\ startPc = "placing"
    /\ inPlace = "-"
    /\ hpc.instId \in startTodo \cap tradingProcesses
    /\ mu[hpc.instId] = "handler"

\* The goroutines that are in the middle of an access of the given kinds.
Accessing(ops) == {t \in Threads : LkRunning(t) /\ lpc[t].busy /\ LkOp(t).op \in ops}

\* C22: every read and write of c.conn and c.isConnected by the reader,
\* heartbeat and liveness goroutines happens with c.mu held by the goroutine
\* that makes it, and two goroutines never write a frame to the transport at
\* the same time.
C22_AccessUnderLock ==
    /\ \A t \in Accessing({"read", "write", "frame"}) : cmu = t
    /\ Cardinality(Accessing({"frame"})) <= 1

\* C23: in the order-pair variant, a filled sell event that matches a tracked
\* pair removes the pair and decrements the count, and the handler, which then
\* calls placeBuyOrder because the count is below the maximum, gets its new
\* buy order placed (or refused by the gateway) and returns, so that later
\* events are processed.
C23_SellFillHandlingCompletes == (hAt # "-") ~> (hAt = "-")

\* C24: in the order-pair variant a pair's order count equals the number of
\* its tracked pairs and never exceeds max_orders, and a placeBuyOrder call
\* made with the count at the maximum calls no gateway function and tracks
\* nothing.
C24_CountMatchesPairsWithinMax ==
    /\ [](\A s \in Symbols :
             /\ orderCount[s] = Cardinality(activeOrders[s])
             /\ orderCount[s] <= MaxOrders[s])
    /\ [][\A s \in Symbols :
             (/\ last'.op = "placeBuyOrder"
              /\ last'.e.instId = s
              /\ orderCount[s] >= MaxOrders[s])
             => (last'.calls = <<>> /\ UNCHANGED <<activeOrders, orderCount, nextId>>)]_vars

\* C24 witness: placeBuyOrder was called with the count at the maximum and
\* returned its error without asking the gateway.
C24_Witness ==
    /\ last.op = "placeBuyOrder"
    /\ last.calls = <<>>
    /\ \E s \in Symbols :
           /\ last.e.instId = s
           /\ orderCount[s] = MaxOrders[s]
           /\ Cardinality(activeOrders[s]) = MaxOrders[s]

\* The handler made the call.
Called(calls, name) == \E i \in DOMAIN calls : calls[i] = name

\* The handler made the call and it returned an error.
CallFailed(calls, name) ==
    \E i \in 1 .. Len(calls) - 1 : calls[i] = name /\ calls[i + 1] = "error"

\* The step handles a filled buy event that names an order of its process.
BuyFillHandled ==
    /\ last'.op = "event"
    /\ last'.e.instId \in tradingProcesses
    /\ last'.e.status = "filled" /\ last'.e.side = "buy" /\ last'.e.priceOk
    /\ Known(last'.e.instId, last'.e.orderId)

\* The step places a sell order on the exchange.
SellPlaced == BuyFillHandled /\ nextId' = nextId + 1 /\ nextId' \in exchOpen'

\* C25: a new sell order is placed only after the previously recorded sell
\* order was successfully cancelled, so at most one sell order of a trading
\* process is open on the exchange at any time, over all sequences of events
\* and gateway outcomes.
C25_OneOpenSellOrder ==
    /\ [](Cardinality(exchOpen) <= 1)
    /\ [][SellPlaced =>
             \A so \in SellOrder[last'.e.instId] :
                 /\ Called(last'.calls, "CancelOrder")
                 /\ ~CallFailed(last'.calls, "CancelOrder")
                 /\ so.OrderId \notin exchOpen']_vars

\* C25 witness: a second sell order was placed after the first was cancelled,
\* and it is the only one open.
C25_Witness ==
    /\ last.op = "event"
    /\ Called(last.calls, "CancelOrder")
    /\ ~Called(last.calls, "error")
    /\ nextId >= 2
    /\ exchOpen = {nextId}

\* C26: when a buy fill is handled with a sell order recorded and CancelOrder
\* fails, the event is aborted: no sell order is placed and the recorded
\* SellOrder and all buy levels stay as they were.
C26_CancelFailureAborts ==
    [][(BuyFillHandled /\ CallFailed(last'.calls, "CancelOrder"))
          => /\ UNCHANGED BotState
             /\ ~Called(last'.calls, "PlaceLimitOrder")]_vars

\* C26 witness: the cancellation of a recorded sell order that is open on the
\* exchange failed.
C26_Witness ==
    /\ last.op = "event"
    /\ CallFailed(last.calls, "CancelOrder")
    /\ \E so \in SellOrder[last.e.instId] : so.OrderId \in exchOpen

\* C27: when a buy fill is handled, a successful sell placement replaces the
\* process's SellOrder record with the new order, and a failed sell placement
\* leaves no SellOrder recorded, also when a previous sell order was recorded
\* and has just been cancelled.
C27_FailedPlacementLeavesNoSellOrder ==
    [][(/\ BuyFillHandled
        /\ last'.e.orderId # EmptyId
        /\ Called(last'.calls, "PlaceLimitOrder"))
          => IF CallFailed(last'.calls, "PlaceLimitOrder")
             THEN SellOrder'[last'.e.instId] = {}
             ELSE /\ nextId' = nextId + 1
                  /\ SellOrder'[last'.e.instId] = {[OrderId |-> nextId']}]_vars

\* The process has no live sell order: none is recorded, or the recorded one
\* is not open on the exchange.  This is how a failed sell placement leaves it.
NoLiveSellOrder(s) == \A so \in SellOrder[s] : so.OrderId \notin exchOpen

\* Every error in the calls is that of a cancellation of an order that was
\* not open: the gateway's calls on live orders succeeded.
LiveCallsSucceeded(s) ==
    \A i \in DOMAIN last'.calls :
        last'.calls[i] = "error" =>
            /\ i > 1
            /\ last'.calls[i - 1] = "CancelOrder"
            /\ \E so \in SellOrder[s] : so.OrderId \notin exchOpen

\* C28: after a sell placement failed, a later buy-fill event of a buy level
\* of the same process, with all gateway calls on live orders succeeding, ends
\* with a sell order placed and recorded.
C28_NextFillReconciles ==
    [][(/\ BuyFillHandled
        /\ last'.e.orderId # EmptyId
        /\ \E i \in DOMAIN BuyOrders[last'.e.instId] :
               BuyOrders[last'.e.instId][i] = last'.e.orderId
        /\ NoLiveSellOrder(last'.e.instId)
        /\ LiveCallsSucceeded(last'.e.instId))
          => /\ nextId' = nextId + 1
             /\ nextId' \in exchOpen'
             /\ SellOrder'[last'.e.instId] = {[OrderId |-> nextId']}]_vars

\* C29: when a buy fill is handled and the position lookup fails or reports
\* no position, nothing is mutated: no order is cancelled or placed and the
\* process's buy levels and SellOrder are unchanged.
C29_NoPositionNoMutation ==
    [][(BuyFillHandled /\ CallFailed(last'.calls, "GetPosition"))
          => /\ UNCHANGED BotState
             /\ last'.calls = <<"GetPosition", "error">>]_vars

\* C29 witness: the position lookup failed while a sell order was recorded
\* and open, which the handler would otherwise have cancelled.
C29_Witness ==
    /\ last.op = "event"
    /\ last.calls = <<"GetPosition", "error">>
    /\ \E so \in SellOrder[last.e.instId] : so.OrderId \in exchOpen

\* C30, as stated: the sell order placed after a buy fill is for the full
\* position size the exchange reported, at the price average entry price x
\* (1 + sell-target-percent / 100); for 39800 and 0.8 that is 40118.40.
C30_SellAtTargetForFullPosition ==
    quote.at = "placed" =>
        /\ quote.Size * SizeStep = quote.total
        /\ quote.Price * PriceStep = quote.avg * (1000 + quote.pct)
        /\ (quote.avg = 398000 /\ quote.pct = 8) => quote.Price = 401184

\* C30, amended: the computed sell price is exactly the target and the order
\* request carries it to the nearest 0.1 and the reported position size to the
\* nearest 0.00000001, whatever the local buy sizes; for 39800 and 0.8 the
\* price is 40118.4.
C30_SellAtRoundedTargetForFullPosition ==
    quote.at = "placed" =>
        /\ quote.sellPrice = quote.avg * 1000 + quote.avg * quote.pct
        /\ 2 * (quote.Price * PriceStep - quote.sellPrice) \in -PriceStep .. PriceStep
        /\ 2 * (quote.Size * SizeStep - quote.total) \in -SizeStep .. SizeStep
        /\ (quote.avg = 398000 /\ quote.pct = 8) =>
               (quote.sellPrice = 401184000 /\ quote.Price = 401184)

\* C30 witness: the order for average entry price 39800 and target 0.8 was
\* requested, for a position that differs from the local buy sizes.
C30_Witness ==
    /\ quote.at = "placed"
    /\ quote.avg = 398000 /\ quote.pct = 8
    /\ quote.Price = 401184
    /\ quote.bought # quote.total
    /\ quote.Size * SizeStep = quote.total

\* C31: a buy level configured with a percentage below the current price gets
\* the target price current price x (1 - percent / 100) when the bot is built,
\* and the target never changes afterwards, however often the level is
\* placed; for current price 40000 and percent 0.5 it is 39800.00.
C31_BuyPriceBelowCurrentFixed ==
    /\ [](level.at \in {"built", "placed"} /\ level.pct > 0 =>
             /\ level.CoinPrice = level.current * 1000 - level.current * level.pct
             /\ (level.current = 400000 /\ level.pct = 5) => level.CoinPrice = 398000000)
    /\ [][level.at \in {"built", "placed"} => level'.CoinPrice = level.CoinPrice]_vars

\* C31 witness: the level for current price 40000 and 0.5 percent was placed
\* twice, at 39800.0 both times.
C31_Witness ==
    /\ level.at = "placed"
    /\ level.current = 400000 /\ level.pct = 5
    /\ level.requests = 2
    /\ level.CoinPrice = 398000000
    /\ level.Price = 398000

\* C32: an order-update event whose status is not "filled" (partial fill,
\* cancelled, new), for an order known to its process, causes no state
\* transition: buy levels, SellOrder and the active set are unchanged and no
\* gateway call is made.
C32_NotFilledNoTransition ==
    [][(/\ last'.op = "event"
        /\ last'.e.instId \in tradingProcesses
        /\ Known(last'.e.instId, last'.e.orderId)
        /\ last'.e.status # "filled")
          => (UNCHANGED BotState /\ last'.calls = <<>>)]_vars

\* C32 witness: a partial fill of the recorded, open sell order was handled.
C32_Witness ==
    /\ last.op = "event"
    /\ last.e.instId \in tradingProcesses
    /\ last.e.status = "partially_filled" /\ last.e.side = "sell" /\ last.e.priceOk
    /\ \E so \in SellOrder[last.e.instId] :
           so.OrderId = last.e.orderId /\ so.OrderId \in exchOpen

\* How often the handler made the call.
CallCount(calls, name) == Cardinality({i \in DOMAIN calls : calls[i] = name})

\* C33: no gateway failure is turned into a retry: the handling of one
\* order-update event makes at most one CancelOrder call and at most one
\* PlaceLimitOrder call, and a failed call is the last thing the handling of
\* that event does.
C33_NoRetryAfterFailure ==
    last.op = "event" =>
        /\ CallCount(last.calls, "CancelOrder") <= 1
        /\ CallCount(last.calls, "PlaceLimitOrder") <= 1
        /\ \A i \in DOMAIN last.calls :
               last.calls[i] = "error" => i = Len(last.calls)

\* C33 witness: the recorded sell order was cancelled, the placement of the
\* new one failed, and the handler returned.
C33_Witness ==
    /\ last.op = "event"
    /\ last.calls = <<"GetPosition", "CancelOrder", "PlaceLimitOrder", "error">>
    /\ exchOpen = {}

\* C34: after Bot.Start returned without error, every configured buy level of
\* every trading process has had a limit buy order placed and carries the
\* order identifier returned for it.
C34_StartPlacesEveryLevel ==
    [][last'.op = "StartReturn" =>
          \A s \in tradingProcesses : \A i \in DOMAIN BuyOrders'[s] :
              BuyOrders'[s][i] # EmptyId]_vars

\* C35: a trading process is removed from the active set only by a filled
\* sell event whose order identifier is that of its current SellOrder; a
\* filled sell event whose identifier matches only a buy level, or the empty
\* identifier of a buy level never placed, does not remove it.
C35_RemovedOnlyBySellOrderFill ==
    [][tradingProcesses' # tradingProcesses =>
          (last'.op = "event" /\ IsSellFill(last'.e))]_vars
\* C36: between the gateway returning an order identifier in placeBuyOrders
\* and that identifier being stored on the buy level, Start holds process.mu
\* and the handler is not inside its critical section for that process, so
\* no event of the process is compared with the buy levels in that window
\* and a fill of the order just placed is not taken for an unknown one (an
\* event that finds no process for its symbol never reaches the buy levels).
C36_NoEventBetweenPlacementAndRecord ==
    (loop.at = "in" /\ loop.id # EmptyId) =>
        /\ mu[loop.s] = PlaceHolder
        /\ hpc = NoEvent \/ hpc.instId # loop.s
        /\ ~(last.op = "event" /\ last.e.instId = loop.s
                /\ loop.s \in tradingProcesses)

\* C36 witness: during startup, the fill of the first buy level, placed and
\* recorded a moment ago, was handled as a known order (the sell order went
\* out) while Start had not left its loop.
C36_Witness ==
    /\ startPc = "placing"
    /\ last.op = "event"
    /\ last.e.side = "buy"
    /\ last.e.status = "filled"
    /\ last.e.orderId # EmptyId
    /\ last.e.orderId = BuyOrders[last.e.instId][1]
    /\ SellOrder[last.e.instId] # {}

\* C37: the delete of a process by a sell-fill event never runs while
\* Start's iteration over b.tradingProcesses is reading the map.
C37_ProcessSetAccessesNeverOverlap == ~mapRace

\* C38: Bot.Start on a running bot returns the error and registers no
\* handler, places no order and starts no placement loop; Bot.Stop on a bot
\* that is not running returns nil and leaves the session as it is (nothing
\* is closed, nothing panics).
C38_StartAndStopGuards ==
    [][/\ (isRunning /\ last'.op \in {"Start", "StartError"}) =>
              /\ last'.op = "StartError"
              /\ handlers' = handlers
              /\ BotState' = BotState
              /\ startPc' = "idle"
              /\ isRunning'
       /\ (~isRunning /\ last'.op \in {"Stop", "StopNoop"}) =>
              /\ last'.op = "StopNoop"
              /\ wsVars' = wsVars
              /\ crashed' = crashed
              /\ ~isRunning']_vars

\* C38 witness: Start was called on a running bot whose buy orders are
\* placed, and returned the error.
C38_Witness ==
    /\ last.op = "StartError"
    /\ isRunning
    /\ handlers = BotHandler
    /\ \E s \in tradingProcesses : \E i \in DOMAIN BuyOrders[s] : BuyOrders[s][i] # EmptyId

\* C39: when a connect attempt of reconnect() returns an error (the dial
\* failed, or the dial succeeded and the login frame could not be sent), the
\* connected flag is false and the transport the attempt opened is closed.
C39_FailedConnectLeavesDisconnected ==
    [][\A t \in Threads :
          (pc[t] \in {"rc_dial", "rc_auth"} /\ pc'[t] = "rc_sleep") =>
              /\ ~isConnected'
              /\ pc[t] = "rc_auth" => ~conn'.open]_vars

====
